---- MODULE Spec2Model ----
(***************************************************************************)
(* Verification model of the Phaser VirtualJoystick plugin: the Stick,     *)
(* DPad and Button controls and the pointer / key / update-tick events     *)
(* that drive them.                                                        *)
(*                                                                         *)
(* Coordinates are integer pixels.  Lengths are compared through their     *)
(* squares, so every comparison of the code (line.length <= deadZone,      *)
(* line.length < baseHitArea.radius, Circle.contains) is exact.  An angle  *)
(* is represented by the direction of the line it was computed from.       *)
(***************************************************************************)
EXTENDS Integers, Sequences, FiniteSets, TLC

(***************************************************************************)
(* Bounds of the model.                                                    *)
(***************************************************************************)
Distance0 == 20      \* the distance argument of addStick / addDPad
StickWidth == 12     \* texture width of the handle sprite at scale 1
ButtonWidth == 8     \* texture width (and height) of the button sprite
MaxTime == 2         \* the clock stops advancing here
RepeatRate0 == 2     \* the non-zero repeatRate a game may set
RepeatRate100 == 10  \* repeatRate = 100 ms, in clock units of 10 ms
HoldTime == 35       \* a press held for 350 ms
MaxTickLen == 3      \* update ticks are at most 30 ms apart
MaxPressTime == 3    \* the latest clock value of the held press
GridMax == 5         \* line ends of the angle scenario lie in -GridMax..GridMax
MaxControls == 4     \* controls the game creates in the manager scenario
AngleRes == 4        \* line angles are sampled every 90/AngleRes degrees
MaxLineLen == 12     \* line lengths of the derived-value scenario lie in 0..MaxLineLen

\* The motionLock a game gives its Stick right after addStick (showOnTouch
\* is given at the same moment).
MotionLocks == {"NONE", "HORIZONTAL", "VERTICAL"}

Pointers == {"P1", "P2"}
Keycodes == {1, 2}

Pt(x, y) == [x |-> x, y |-> y]

\* Positions a pointer may report (the base of a control is created at 0,0).
Pos == { Pt(0, 0), Pt(2, 0), Pt(0, 5), Pt(0 - 8, 0), Pt(12, 16) }

(***************************************************************************)
(* Geometry supplied by the host (Phaser.Line, Phaser.Circle,              *)
(* Phaser.Rectangle).                                                      *)
(***************************************************************************)
Abs(n) == IF n < 0 THEN 0 - n ELSE n

Sgn(n) == IF n < 0 THEN 0 - 1 ELSE IF n > 0 THEN 1 ELSE 0

\* Phaser.Line.length, squared.
LenSq(line) ==
    (line.end.x - line.start.x) * (line.end.x - line.start.x)
  + (line.end.y - line.start.y) * (line.end.y - line.start.y)

\* Phaser.Circle.contains: inside or on a circle of the given diameter.
CircleContains(c, p) ==
    /\ c.diameter > 0
    /\ 4 * ((c.x - p.x) * (c.x - p.x) + (c.y - p.y) * (c.y - p.y))
         <= c.diameter * c.diameter

\* Phaser.Rectangle.contains: x,y is the top left corner, right and bottom
\* edges are exclusive.
RectContains(r, p) ==
    /\ r.width > 0 /\ r.height > 0
    /\ p.x >= r.x /\ p.x < r.x + r.width
    /\ p.y >= r.y /\ p.y < r.y + r.height

\* |diameter/2 * d / sqrt(n)| truncated to a whole pixel.
Scaled(diameter, d, n) ==
    CHOOSE m \in 0..diameter :
        /\ 4 * m * m * n <= diameter * diameter * d * d
        /\ 4 * (m + 1) * (m + 1) * n > diameter * diameter * d * d

\* Phaser.Circle.circumferencePoint(line.angle): the point of the circle in
\* the direction of the line.
CircumferencePoint(c, line) ==
    LET dx == line.end.x - line.start.x
        dy == line.end.y - line.start.y
        n == dx * dx + dy * dy
    IN  IF n = 0 THEN Pt(c.x + Scaled(c.diameter, 1, 1), c.y)
        ELSE Pt(c.x + Sgn(dx) * Scaled(c.diameter, dx, n),
                c.y + Sgn(dy) * Scaled(c.diameter, dy, n))

\* Greatest common divisor, to reduce a direction.
RECURSIVE Gcd(_, _)
Gcd(a, b) == IF b = 0 THEN a ELSE Gcd(b, a % b)

\* Phaser.Line.angle = atan2(dy, dx), represented by the reduced direction;
\* atan2(0, 0) is 0, the angle of direction (1, 0).
LineAngle(line) ==
    LET dx == line.end.x - line.start.x
        dy == line.end.y - line.start.y
        g == Gcd(Abs(dx), Abs(dy))
    IN  IF g = 0 THEN Pt(1, 0) ELSE Pt(dx \div g, dy \div g)

(***************************************************************************)
(* Stick and DPad.  A control is a record s; a handler maps a context      *)
(* [s |-> control, out |-> notifications dispatched so far] to a context.  *)
(***************************************************************************)
Null == [null |-> TRUE]

Note(from, sig, arg) == [from |-> from, sig |-> sig, arg |-> arg]

\* Phaser.Signal.dispatch: a disposed signal has no listeners left.
Dispatch(x, sig, arg) ==
    IF sig \in x.s.disposed THEN x
    ELSE [x EXCEPT !.out = Append(@, Note(x.s.kind, sig, arg))]

\* new Phaser.VirtualJoystick.Stick(pad, 0, 0, distance, ...) and
\* new Phaser.VirtualJoystick.DPad(pad, 0, 0, distance, ...)
NewStick(kind) ==
    [ kind |-> kind,
      pad |-> "pad",
      registered |-> TRUE,
      handlers |-> {"down", "up", "move"},
      disposed |-> {},
      position |-> Pt(0, 0),
      line |-> [start |-> Pt(0, 0), end |-> Pt(0, 0)],
      baseHitArea |-> [x |-> 0, y |-> 0, diameter |-> Distance0],
      stickHitArea |-> [x |-> 0, y |-> 0, diameter |-> StickWidth],
      pointer |-> "null",
      enabled |-> TRUE,
      isDown |-> FALSE,
      isUp |-> TRUE,
      timeDown |-> 0,
      timeUp |-> 0,
      angle |-> Pt(1, 0),
      quadrant |-> 0,
      octant |-> 0,
      direction |-> "NONE",
      motionLock |-> IF kind = "Stick" THEN "NONE" ELSE "undefined",
      _distance |-> Distance0,
      _deadZone20 |-> 3 * Distance0,
      _scale |-> 1,
      _tracking |-> FALSE,
      _showOnTouch |-> FALSE,
      visible |-> TRUE ]

\* Stick#distance / DPad#distance (getter)
distance(s) == s._distance * s._scale

\* Stick#force = Math.min(1, line.length / distance * 2), squared and kept
\* as a fraction.
forceSq(s) ==
    LET n == 4 * LenSq(s.line)
        d == distance(s) * distance(s)
    IN  IF n >= d THEN [num |-> 1, den |-> 1] ELSE [num |-> n, den |-> d]

\* line.length <= this.deadZone, with deadZone = _deadZone * _scale and
\* _deadZone = 0.15 * distance kept as twentieths of a pixel.
LengthLeqDeadZone(s) ==
    400 * LenSq(s.line) <= (s._deadZone20 * s._scale) * (s._deadZone20 * s._scale)

\* line.length < this.baseHitArea.radius
LengthLtRadius(s) ==
    4 * LenSq(s.line) < s.baseHitArea.diameter * s.baseHitArea.diameter

\* The intervals closed above instead of below: (45,135] is 1, and so on.
QuadrantOf_closedAbove(a) ==
    IF a.y > 0 /\ a.y > a.x /\ a.y >= 0 - a.x THEN 1
    ELSE IF a.x < 0 /\ a.y < 0 - a.x /\ a.y >= a.x THEN 2
    ELSE IF a.y < 0 /\ a.x > a.y /\ a.x <= 0 - a.y THEN 3
    ELSE 0

\* The quadrant of an angle: [45,135) is 1, [135,225) is 2, [225,315) is 3.
QuadrantOf(a) ==
    IF a.y > 0 /\ a.y >= a.x /\ a.y > 0 - a.x THEN 1
    ELSE IF a.x < 0 /\ a.y <= 0 - a.x /\ a.y > a.x THEN 2
    ELSE IF a.y < 0 /\ a.x >= a.y /\ a.x < 0 - a.y THEN 3
    ELSE 0

\* b/a < tan(22.5 degrees) = sqrt(2) - 1, for a > 0 and b >= 0.
WithinHalfOctant(a, b) == (a + b) * (a + b) < 2 * a * a

\* 45 * Math.round(angleFull / 45)
OctantOf(a) ==
    IF a.x > 0 /\ WithinHalfOctant(a.x, Abs(a.y)) THEN (IF a.y >= 0 THEN 0 ELSE 360)
    ELSE IF a.y > 0 /\ WithinHalfOctant(a.y, Abs(a.x)) THEN 90
    ELSE IF a.x < 0 /\ WithinHalfOctant(0 - a.x, Abs(a.y)) THEN 180
    ELSE IF a.y < 0 /\ WithinHalfOctant(0 - a.y, Abs(a.x)) THEN 270
    ELSE IF a.x > 0 /\ a.y > 0 THEN 45
    ELSE IF a.x < 0 /\ a.y > 0 THEN 135
    ELSE IF a.x < 0 /\ a.y < 0 THEN 225
    ELSE 315

\* Stick#checkArea / DPad#checkArea
checkArea(s) ==
    LET a == LineAngle(s.line)
    IN  [s EXCEPT !.angle = a, !.octant = OctantOf(a), !.quadrant = QuadrantOf(a)]

\* setDown that lets go of the pointer.
setDown_dropsPointer(x, now) ==
    LET s1 == [x.s EXCEPT !.isDown = TRUE, !.isUp = FALSE,
                          !.timeDown = now, !.timeUp = 0,
                          !._tracking = FALSE]
    IN  [Dispatch([x EXCEPT !.s = checkArea(s1)], "onDown", s1.pointer)
            EXCEPT !.s.pointer = "null"]

\* setDown that forgets isUp.
setDown_keepsUp(x, now) ==
    LET s1 == [x.s EXCEPT !.isDown = TRUE,
                          !.timeDown = now, !.timeUp = 0,
                          !._tracking = FALSE]
    IN  Dispatch([x EXCEPT !.s = checkArea(s1)], "onDown", s1.pointer)

\* setDown that leaves the tracking flag set.
setDown_keepsTracking(x, now) ==
    LET s1 == [x.s EXCEPT !.isDown = TRUE, !.isUp = FALSE,
                          !.timeDown = now, !.timeUp = 0]
    IN  Dispatch([x EXCEPT !.s = checkArea(s1)], "onDown", s1.pointer)

\* Stick#setDown / DPad#setDown
setDown(x, now) ==
    LET s1 == [x.s EXCEPT !.isDown = TRUE, !.isUp = FALSE,
                          !.timeDown = now, !.timeUp = 0,
                          !._tracking = FALSE]
    IN  Dispatch([x EXCEPT !.s = checkArea(s1)], "onDown", s1.pointer)

\* The assignment of the pointer position to line.end under motionLock
\* (Stick) or unconditionally (DPad).
LineEndFrom(s, p) ==
    IF s.kind = "DPad" \/ s.motionLock = "NONE" THEN p
    ELSE IF s.motionLock = "HORIZONTAL" THEN Pt(p.x, s.line.end.y)
    ELSE IF s.motionLock = "VERTICAL" THEN Pt(s.line.end.x, p.y)
    ELSE s.line.end

\* The handle follows the point on both axes whatever the motionLock.
HandleFrom_ignoresLock(s, p) ==
    IF s.motionLock \in MotionLocks THEN [s.stickHitArea EXCEPT !.x = p.x, !.y = p.y]
    ELSE s.stickHitArea

\* The assignment of a point to stickHitArea.x / .y under motionLock.
HandleFrom(s, p) ==
    IF s.motionLock = "NONE" THEN [s.stickHitArea EXCEPT !.x = p.x, !.y = p.y]
    ELSE IF s.motionLock = "HORIZONTAL" THEN [s.stickHitArea EXCEPT !.x = p.x]
    ELSE IF s.motionLock = "VERTICAL" THEN [s.stickHitArea EXCEPT !.y = p.y]
    ELSE s.stickHitArea

\* Up and down exchanged.
DirectionOf_swapped(q) ==
    IF q = 1 THEN "UP" ELSE IF q = 2 THEN "LEFT" ELSE IF q = 3 THEN "DOWN" ELSE "RIGHT"

\* The direction a DPad takes for a quadrant.
DirectionOf(q) ==
    IF q = 1 THEN "DOWN" ELSE IF q = 2 THEN "LEFT" ELSE IF q = 3 THEN "UP" ELSE "RIGHT"

\* Stick#moveStick / DPad#moveStick; pp is the position of the bound pointer.
moveStick(x, pp, now) ==
    IF x.s.pointer = "null" \/ (~x.s.isDown /\ ~x.s._tracking)
    THEN IF x.s.kind = "DPad" THEN [x EXCEPT !.s.direction = "NONE"] ELSE x
    ELSE
      LET s1 == checkArea([x.s EXCEPT !.line.end = LineEndFrom(x.s, pp)])
      IN  IF ~s1.isDown /\ LengthLeqDeadZone(s1)
          THEN [x EXCEPT !.s = IF s1.kind = "DPad"
                                 THEN [s1 EXCEPT !.direction = "NONE"] ELSE s1]
          ELSE
            LET x2 == IF s1._tracking THEN setDown([x EXCEPT !.s = s1], now)
                      ELSE [x EXCEPT !.s = s1]
                s2 == x2.s
                target == IF LengthLtRadius(s2) THEN pp
                          ELSE CircumferencePoint(s2.baseHitArea, s2.line)
                s3 == [s2 EXCEPT !.stickHitArea = HandleFrom(s2, target)]
                s4 == IF s3.kind = "DPad"
                      THEN [s3 EXCEPT !.direction = DirectionOf(s3.quadrant)]
                      ELSE s3
            IN  Dispatch([x2 EXCEPT !.s = s4], "onMove", "values")

\* DPad#x
DPad_x(s) ==
    IF s.direction = "LEFT" THEN 0 - 1 ELSE IF s.direction = "RIGHT" THEN 1 ELSE 0

\* DPad#y
DPad_y(s) ==
    IF s.direction = "UP" THEN 0 - 1 ELSE IF s.direction = "DOWN" THEN 1 ELSE 0

\* Stick#posX, Stick#posY / DPad#posX, DPad#posY (setters)
SetPosX(s, v) ==
    IF s.position.x # v
    THEN [s EXCEPT !.position.x = v, !.baseHitArea.x = v, !.stickHitArea.x = v,
                   !.line.start.x = v, !.line.end.x = v]
    ELSE s

SetPosY(s, v) ==
    IF s.position.y # v
    THEN [s EXCEPT !.position.y = v, !.baseHitArea.y = v, !.stickHitArea.y = v,
                   !.line.start.y = v, !.line.end.y = v]
    ELSE s

\* Stick#scale / DPad#scale (setter): this.distance is read before _scale is
\* assigned; the handle sprite's width is its texture width times value.
scale(s, v) ==
    IF s._scale # v
    THEN [s EXCEPT !.baseHitArea = [x |-> s.position.x, y |-> s.position.y,
                                    diameter |-> distance(s) * v],
                   !.stickHitArea = [x |-> s.position.x, y |-> s.position.y,
                                     diameter |-> StickWidth * v],
                   !._scale = v]
    ELSE s

\* Stick#distance / DPad#distance (setter)
SetDistance(s, v) == IF s._distance # v THEN [s EXCEPT !._distance = v] ELSE s

\* checkDown that shows the control where it is instead of at the pointer.
checkDown_noWarp(x, p, pp, now) ==
    IF x.s.enabled /\ x.s.isUp
    THEN
      LET s1 == [x.s EXCEPT !.pointer = p, !.line.end = LineEndFrom(x.s, pp)]
      IN  IF s1._showOnTouch
          THEN setDown([x EXCEPT !.s = [s1 EXCEPT !.visible = TRUE]], now)
          ELSE IF CircleContains(s1.stickHitArea, pp)
               THEN IF LengthLeqDeadZone(s1)
                    THEN [x EXCEPT !.s = [s1 EXCEPT !._tracking = TRUE]]
                    ELSE moveStick(setDown([x EXCEPT !.s = s1], now), pp, now)
               ELSE [x EXCEPT !.s = s1]
    ELSE x

\* Stick#checkDown / DPad#checkDown; pp is the position of pointer p.
checkDown(x, p, pp, now) ==
    IF x.s.enabled /\ x.s.isUp
    THEN
      LET s1 == [x.s EXCEPT !.pointer = p, !.line.end = LineEndFrom(x.s, pp)]
      IN  IF s1._showOnTouch
          THEN LET s2 == [s1 EXCEPT !.line.start = pp]
                   s3 == SetPosY(SetPosX(s2, pp.x), pp.y)
               IN  setDown([x EXCEPT !.s = [s3 EXCEPT !.visible = TRUE]], now)
          ELSE IF CircleContains(s1.stickHitArea, pp)
               THEN IF LengthLeqDeadZone(s1)
                    THEN [x EXCEPT !.s = [s1 EXCEPT !._tracking = TRUE]]
                    ELSE moveStick(setDown([x EXCEPT !.s = s1], now), pp, now)
               ELSE [x EXCEPT !.s = s1]
    ELSE x

\* checkUp that leaves the line where the pointer was.
checkUp_keepsLine(x, p, now) ==
    IF p = x.s.pointer
    THEN
      LET s1 == [x.s EXCEPT !.pointer = "null",
                            !.stickHitArea.x = x.s.position.x,
                            !.stickHitArea.y = x.s.position.y,
                            !.isDown = FALSE, !.isUp = TRUE,
                            !.direction = IF x.s.kind = "DPad" THEN "NONE" ELSE @,
                            !.timeUp = now]
          x1 == Dispatch([x EXCEPT !.s = s1], "onUp", p)
      IN  IF s1._showOnTouch THEN [x1 EXCEPT !.s.visible = FALSE] ELSE x1
    ELSE x

\* checkUp that does not compare the pointer with the one it has bound.
checkUp_anyPointer(x, p, now) ==
    IF x.s.pointer # "null"
    THEN
      LET s1 == [x.s EXCEPT !.pointer = "null",
                            !.stickHitArea.x = x.s.position.x,
                            !.stickHitArea.y = x.s.position.y,
                            !.line.end = x.s.line.start,
                            !.isDown = FALSE, !.isUp = TRUE,
                            !.direction = IF x.s.kind = "DPad" THEN "NONE" ELSE @,
                            !.timeUp = now]
          x1 == Dispatch([x EXCEPT !.s = s1], "onUp", p)
      IN  IF s1._showOnTouch THEN [x1 EXCEPT !.s.visible = FALSE] ELSE x1
    ELSE x

\* Stick#checkUp / DPad#checkUp
checkUp(x, p, now) ==
    IF p = x.s.pointer
    THEN
      LET s1 == [x.s EXCEPT !.pointer = "null",
                            !.stickHitArea.x = x.s.position.x,
                            !.stickHitArea.y = x.s.position.y,
                            !.line.end = x.s.line.start,
                            !.isDown = FALSE, !.isUp = TRUE,
                            !.direction = IF x.s.kind = "DPad" THEN "NONE" ELSE @,
                            !.timeUp = now]
          x1 == Dispatch([x EXCEPT !.s = s1], "onUp", p)
      IN  IF s1._showOnTouch THEN [x1 EXCEPT !.s.visible = FALSE] ELSE x1
    ELSE x

\* update that releases a control that is held.
update_autoRelease(x) ==
    IF x.s.isDown /\ ~x.s._tracking
    THEN Dispatch([x EXCEPT !.s.isDown = FALSE, !.s.isUp = TRUE], "onUpdate", "values")
    ELSE x

\* update that also reports a control that is only tracking.
update_whileTracking(x) ==
    IF x.s.isDown \/ x.s._tracking THEN Dispatch(x, "onUpdate", "values") ELSE x

\* Stick#update / DPad#update
update(x) ==
    IF x.s.isDown /\ ~x.s._tracking THEN Dispatch(x, "onUpdate", "values") ELSE x

\* The comparison of the destroy loop is made on the moveCallbacks array
\* itself, which has no callback property: undefined === this.moveStick.
MoveCallbackMatches == FALSE

\* Stick#destroy / DPad#destroy
destroy(s) ==
    [s EXCEPT !.handlers = IF MoveCallbackMatches THEN {} ELSE {"move"},
              !.stickHitArea = Null, !.baseHitArea = Null, !.line = Null,
              !.disposed = IF s.kind = "Stick"
                           THEN {"onDown", "onUp", "onMove", "onUpdate"}
                           ELSE {"onDown", "onUp"},
              !.pointer = "null",
              !._scale = 0,
              !.pad = "null"]

(***************************************************************************)
(* Button.                                                                 *)
(***************************************************************************)
\* new Phaser.VirtualJoystick.Button(pad, shape, 0, 0, ...)
NewButton(shape) ==
    [ kind |-> "Button",
      pad |-> "pad",
      registered |-> TRUE,
      handlers |-> {"down", "up"},
      disposed |-> {},
      shape |-> shape,
      hitArea |-> IF shape = "CIRC_BUTTON"
                  THEN [x |-> 0, y |-> 0, diameter |-> ButtonWidth]
                  ELSE [x |-> 0, y |-> 0, width |-> ButtonWidth, height |-> ButtonWidth],
      pointer |-> "null",
      enabled |-> TRUE,
      isDown |-> FALSE,
      isUp |-> TRUE,
      timeDown |-> 0,
      timeUp |-> 0,
      repeatRate |-> 0,
      key |-> 0,
      _timeNext |-> 0 ]

\* this.hitArea.contains(pointer.x, pointer.y)
HitAreaContains(b, pp) ==
    IF b.shape = "CIRC_BUTTON" THEN CircleContains(b.hitArea, pp)
    ELSE RectContains(b.hitArea, pp)

\* Button#duration (getter): a button that is down reads this.game.time, and
\* a Button has no game property (its constructor stores pad only), so the
\* read throws.
duration(b) ==
    IF b.isUp THEN [value |-> b.timeUp - b.timeDown]
    ELSE [error |-> "TypeError"]

\* Reading this.pad.game of a destroyed control (pad is null) throws.
Throw(x) == [x EXCEPT !.out = Append(@, Note(x.s.kind, "TypeError", "null"))]

\* Button#keyDown
keyDown(x, now) ==
    IF ~x.s.isDown
    THEN LET x1 == [x EXCEPT !.s.isDown = TRUE, !.s.isUp = FALSE]
         IN  IF x.s.pad = "null" THEN Throw(x1)
             ELSE Dispatch([x1 EXCEPT !.s.timeDown = now, !.s.timeUp = 0],
                           "onDown", x.s.key)
    ELSE x

\* Button#keyUp
keyUp(x, now) ==
    IF x.s.isDown
    THEN LET x1 == [x EXCEPT !.s.isDown = FALSE, !.s.isUp = TRUE]
         IN  IF x.s.pad = "null" THEN Throw(x1)
             ELSE Dispatch([x1 EXCEPT !.s.timeUp = now], "onUp", x.s.key)
    ELSE x

\* checkDown that takes a pointer-down anywhere on the screen.
Button_checkDown_anywhere(x, p, pp, now) ==
    IF x.s.enabled /\ x.s.isUp
    THEN Dispatch([x EXCEPT !.s.pointer = p, !.s.isDown = TRUE, !.s.isUp = FALSE,
                            !.s.timeDown = now, !.s.timeUp = 0],
                  "onDown", p)
    ELSE x

\* Button#checkDown
Button_checkDown(x, p, pp, now) ==
    IF x.s.enabled /\ x.s.isUp /\ HitAreaContains(x.s, pp)
    THEN Dispatch([x EXCEPT !.s.pointer = p, !.s.isDown = TRUE, !.s.isUp = FALSE,
                            !.s.timeDown = now, !.s.timeUp = 0],
                  "onDown", p)
    ELSE x

\* Button#checkUp
Button_checkUp(x, p, now) ==
    IF p = x.s.pointer
    THEN Dispatch([x EXCEPT !.s.pointer = "null", !.s.isDown = FALSE,
                            !.s.isUp = TRUE, !.s.timeUp = now],
                  "onUp", p)
    ELSE x

\* update that repeat-fires whatever the repeatRate.
Button_update_anyRate(x, now) ==
    IF x.s.isDown /\ now >= x.s._timeNext
    THEN [Dispatch(x, "onDown", x.s.pointer) EXCEPT !.s._timeNext = now + x.s.repeatRate]
    ELSE x

\* Button#update
Button_update(x, now) ==
    IF x.s.repeatRate > 0 /\ x.s.isDown /\ now >= x.s._timeNext
    THEN [Dispatch(x, "onDown", x.s.pointer) EXCEPT !.s._timeNext = now + x.s.repeatRate]
    ELSE x

\* Button#addKey; keyboard.removeKey is handed the Key object, not its
\* keycode, so the Key stays known to the keyboard with its listeners removed.
addKey(b, keycode) ==
    IF b.key # 0 /\ b.key = keycode THEN b
    ELSE [b EXCEPT !.key = keycode]

\* Button#destroy
Button_destroy(b) ==
    [b EXCEPT !.handlers = {}, !.disposed = {"onDown", "onUp"},
              !.hitArea = Null, !.pointer = "null", !.pad = "null"]

(***************************************************************************)
(* The state machine: the game has created one control through the pad     *)
(* (addStick, addDPad or addButton); the host delivers pointer, key and    *)
(* update-tick events to the handlers that are registered.                 *)
(***************************************************************************)
VARIABLES
    stick,        \* the Stick or DPad, Null when a Button was created
    button,       \* the Button, Null when a Stick or DPad was created
    ptr,          \* the host's pointers: active or not, and where
    keyboard,     \* the host's Key objects: "none", "up" or "down"
    time,         \* game.time.time, advanced by every update tick
    tickLen,      \* the time between two update ticks
    fired,        \* the notifications dispatched by the last event, in order
    pendingDown,  \* an onDown was dispatched and no onUp since
    repeats,      \* onDown notifications dispatched by update since the press
    last,         \* the last event, when it was a pointer-down or pointer-up
    pad,          \* the manager: its registries and its pointer count
    stickB,       \* the second Stick or DPad, Null when one control was created
    downBy        \* the keycode whose press took the Button down, 0 when it
                  \* is up or a pointer took it down

vars == <<stick, button, ptr, keyboard, time, tickLen, fired, pendingDown, repeats, last,
          pad, stickB, downBy>>

Exists(c) == "kind" \in DOMAIN c

Alive(c) == Exists(c) /\ c.pad = "pad"

Ctx(c) == [s |-> c, out |-> <<>>]

Inactive == [on |-> FALSE, pos |-> Pt(0, 0)]

\* The position read through a pointer reference.
PosOf(pt, p) == IF p = "null" THEN Pt(0, 0) ELSE pt[p].pos

\* pendingDown after the notifications of one event.
RECURSIVE Pending(_, _)
Pending(b, out) ==
    IF out = <<>> THEN b
    ELSE Pending(IF Head(out).sig = "onDown" THEN TRUE
                 ELSE IF Head(out).sig = "onUp" THEN FALSE ELSE b, Tail(out))

\* The pointer a control holds a reference to.
BoundTo(c) == IF Exists(c) THEN c.pointer ELSE "null"

\* The host's pointers after an event.  A position is read again only
\* through the reference a Stick or DPad holds (this.pointer in moveStick),
\* so it is kept for that pointer alone.
Kept(pt, s) ==
    [p \in Pointers |-> IF pt[p].on /\ p = BoundTo(s) THEN pt[p]
                        ELSE [pt[p] EXCEPT !.pos = Pt(0, 0)]]

\* Up, untouched and centred: no pointer bound, the line of zero length and
\* the handle on the base.
AtRest(s) ==
    /\ s.isUp /\ ~s.isDown
    /\ s.pointer = "null"
    /\ s.line.end = s.line.start
    /\ s.stickHitArea.x = s.position.x /\ s.stickHitArea.y = s.position.y
    /\ s.direction = "NONE"

\* The distance from the base to pos is greater than deadZone.
BeyondDeadZone(s, pos) ==
    400 * LenSq([start |-> s.position, end |-> pos])
        > (s._deadZone20 * s._scale) * (s._deadZone20 * s._scale)

NoEvent ==
    [ev |-> "none", p |-> "null", rest |-> FALSE, wentDown |-> FALSE,
     wasBound |-> FALSE, trip |-> FALSE, before |-> Null]

\* The outcome of one event: the contexts the handlers returned, and the
\* record of the event.
Outcome(xs, xb, l) ==
    /\ stick' = xs.s
    /\ button' = xb.s
    /\ fired' = xs.out \o xb.out
    /\ pendingDown' = Pending(pendingDown, xs.out \o xb.out)
    /\ last' = l

\* Stick#showOnTouch / DPad#showOnTouch (setter)
showOnTouch(s, v) ==
    IF s._showOnTouch # v
    THEN [s EXCEPT !._showOnTouch = v, !.visible = IF v /\ @ THEN FALSE ELSE @]
    ELSE s

\* ArraySet#add, ArraySet#remove of the host library, as the manager uses
\* them on its registries.
ArraySetAdd(list, c) ==
    IF \E i \in DOMAIN list : list[i] = c THEN list ELSE Append(list, c)

ArraySetRemove(list, c) == SelectSeq(list, LAMBDA e : e # c)

\* The manager after its constructor and init.  Its controls are numbered
\* in the order of their creation; kind[c] is the kind of control c,
\* destroyed the controls destroy was called on, addPointer the number of
\* game.input.addPointer() calls made, calls the update calls forwarded by
\* the last manager update.
NewPad ==
    [ sticks |-> << >>, buttons |-> << >>, _pointerTotal |-> 0,
      kind |-> << >>, destroyed |-> {}, addPointer |-> 0, calls |-> << >> ]

\* this._pointerTotal++; if (this._pointerTotal > 2) game.input.addPointer()
CountPointer(pd) ==
    LET pd1 == [pd EXCEPT !._pointerTotal = @ + 1]
    IN  IF pd1._pointerTotal > 2 THEN [pd1 EXCEPT !.addPointer = @ + 1] ELSE pd1

\* Phaser.VirtualJoystick.prototype.addStick
addStick(pd) ==
    LET c == Len(pd.kind) + 1
    IN  CountPointer([pd EXCEPT !.kind = Append(@, "Stick"),
                                !.sticks = ArraySetAdd(@, c), !.calls = << >>])

\* Phaser.VirtualJoystick.prototype.addDPad
addDPad(pd) ==
    LET c == Len(pd.kind) + 1
    IN  CountPointer([pd EXCEPT !.kind = Append(@, "DPad"),
                                !.sticks = ArraySetAdd(@, c), !.calls = << >>])

\* Phaser.VirtualJoystick.prototype.addButton
addButton(pd) ==
    LET c == Len(pd.kind) + 1
    IN  CountPointer([pd EXCEPT !.kind = Append(@, "Button"),
                                !.buttons = ArraySetAdd(@, c), !.calls = << >>])

\* Phaser.VirtualJoystick.prototype.removeStick
removeStick(pd, c) ==
    [pd EXCEPT !.sticks = ArraySetRemove(@, c), !.destroyed = @ \cup {c},
               !.calls = << >>]

\* Phaser.VirtualJoystick.prototype.removeButton
removeButton(pd, c) ==
    [pd EXCEPT !.buttons = ArraySetRemove(@, c), !.destroyed = @ \cup {c},
               !.calls = << >>]

\* update that calls the buttons before the sticks.
Pad_update_buttonsFirst(pd) == [pd EXCEPT !.calls = pd.buttons \o pd.sticks]

\* Phaser.VirtualJoystick.prototype.update
Pad_update(pd) == [pd EXCEPT !.calls = pd.sticks \o pd.buttons]

\* Phaser.VirtualJoystick.prototype.destroy
Pad_destroy(pd) ==
    [pd EXCEPT !.sticks = << >>, !.buttons = << >>,
               !.destroyed = @ \cup {pd.sticks[i] : i \in DOMAIN pd.sticks}
                               \cup {pd.buttons[i] : i \in DOMAIN pd.buttons},
               !.calls = << >>]

\* downBy after an event that key k (0 for a pointer) delivered to the
\* Button: the key of the press that is in progress.
PressedBy(b, b1, k) ==
    IF ~Exists(b1) \/ ~b1.isDown THEN 0
    ELSE IF ~b.isDown THEN k ELSE downBy

InitHost ==
    /\ pad = NewPad
    /\ stickB = Null
    /\ downBy = 0
    /\ ptr = [p \in Pointers |-> Inactive]
    /\ keyboard = [k \in Keycodes |-> "none"]
    /\ time = 1
    /\ fired = <<>>
    /\ pendingDown = FALSE
    /\ repeats = 0
    /\ last = NoEvent

Init ==
    /\ \/ \E m \in MotionLocks, v \in BOOLEAN :
              /\ stick = showOnTouch([NewStick("Stick") EXCEPT !.motionLock = m], v)
              /\ button = Null
       \/ \E v \in BOOLEAN : stick = showOnTouch(NewStick("DPad"), v) /\ button = Null
       \/ \E shape \in {"CIRC_BUTTON", "RECT_BUTTON"} :
              stick = Null /\ button = NewButton(shape)
    /\ tickLen = 1
    /\ InitHost

\* game.input.onDown: a pointer goes down at pos.
PointerDown(p, pos) ==
    /\ ~ptr[p].on
    /\ Outcome(IF Exists(stick) /\ "down" \in stick.handlers
               THEN checkDown(Ctx(stick), p, pos, time) ELSE Ctx(stick),
               IF Exists(button) /\ "down" \in button.handlers
               THEN Button_checkDown(Ctx(button), p, pos, time) ELSE Ctx(button),
               LET rest == Alive(stick) /\ AtRest(stick) /\ BeyondDeadZone(stick, pos)
               IN  [NoEvent EXCEPT !.ev = "down", !.p = p, !.rest = rest,
                                   !.wentDown = Exists(stick) /\ stick'.isDown,
                                   !.before = IF rest THEN stick ELSE Null])
    /\ ptr' = Kept([ptr EXCEPT ![p] = [on |-> TRUE, pos |-> pos]], stick')
    /\ repeats' = IF Exists(button) /\ button'.isDown /\ ~button.isDown THEN 0 ELSE repeats
    /\ downBy' = PressedBy(button, button', 0)
    /\ UNCHANGED <<keyboard, time, tickLen, pad, stickB>>

\* game.input.moveCallbacks: an active pointer moves to pos.
PointerMove(p, pos) ==
    /\ ptr[p].on
    /\ p = BoundTo(stick) => ptr[p].pos # pos
    /\ LET moved == [ptr EXCEPT ![p].pos = pos]
       IN  /\ Outcome(IF Exists(stick) /\ "move" \in stick.handlers
                      THEN moveStick(Ctx(stick), PosOf(moved, stick.pointer), time)
                      ELSE Ctx(stick),
                      Ctx(button), NoEvent)
           /\ ptr' = Kept(moved, stick')
    /\ UNCHANGED <<keyboard, time, tickLen, repeats, pad, stickB, downBy>>

\* game.input.onUp: an active pointer is released.
PointerUp(p) ==
    /\ ptr[p].on
    /\ Outcome(IF Exists(stick) /\ "up" \in stick.handlers
               THEN checkUp(Ctx(stick), p, time) ELSE Ctx(stick),
               IF Exists(button) /\ "up" \in button.handlers
               THEN Button_checkUp(Ctx(button), p, time) ELSE Ctx(button),
               LET trip == last.ev = "down" /\ last.rest /\ last.p = p
               IN  [NoEvent EXCEPT !.ev = "up", !.p = p,
                                   !.wasBound = (p = BoundTo(stick) \/ p = BoundTo(button)),
                                   !.trip = trip,
                                   !.wentDown = trip /\ last.wentDown,
                                   !.before = IF trip THEN last.before ELSE Null])
    /\ ptr' = Kept([ptr EXCEPT ![p] = Inactive], stick')
    /\ downBy' = PressedBy(button, button', 0)
    /\ UNCHANGED <<keyboard, time, tickLen, repeats, pad, stickB>>

\* Phaser.VirtualJoystick.prototype.update, after the clock has advanced;
\* the clock stops at limit.
TickUpTo(limit) ==
    /\ time + tickLen <= limit
    /\ time' = time + tickLen
    /\ Outcome(IF Exists(stick) /\ stick.registered
               THEN update(Ctx(stick)) ELSE Ctx(stick),
               IF Exists(button) /\ button.registered
               THEN Button_update(Ctx(button), time') ELSE Ctx(button),
               NoEvent)
    /\ repeats' = repeats + Cardinality({i \in DOMAIN fired' : fired'[i].from = "Button" /\ fired'[i].sig = "onDown"})
    /\ UNCHANGED <<ptr, keyboard, tickLen, pad, stickB, downBy>>

Tick == TickUpTo(MaxTime)

\* control.enabled = v
SetEnabled(v) ==
    /\ \/ Alive(stick) /\ stick.enabled # v
          /\ Outcome(Ctx([stick EXCEPT !.enabled = v]), Ctx(button), NoEvent)
       \/ Alive(button) /\ button.enabled # v
          /\ Outcome(Ctx(stick), Ctx([button EXCEPT !.enabled = v]), NoEvent)
    /\ UNCHANGED <<ptr, keyboard, time, tickLen, repeats, pad, stickB, downBy>>

\* Phaser.VirtualJoystick.prototype.removeStick
RemoveStick ==
    /\ Alive(stick)
    /\ Outcome(Ctx([destroy(stick) EXCEPT !.registered = FALSE]), Ctx(button), NoEvent)
    /\ ptr' = Kept(ptr, stick')
    /\ UNCHANGED <<keyboard, time, tickLen, repeats, pad, stickB, downBy>>

\* Phaser.VirtualJoystick.prototype.removeButton
RemoveButton ==
    /\ Alive(button)
    /\ Outcome(Ctx(stick), Ctx([Button_destroy(button) EXCEPT !.registered = FALSE]),
               NoEvent)
    /\ UNCHANGED <<ptr, keyboard, time, tickLen, repeats, pad, stickB, downBy>>

\* control.destroy() on a control that is destroyed already: the first
\* statement reads this.pad.game, pad is null, and the call throws before
\* any assignment.
DestroyAgain ==
    /\ \/ /\ Exists(stick) /\ stick.pad = "null"
          /\ Outcome(Throw(Ctx(stick)), Ctx(button), NoEvent)
       \/ /\ Exists(button) /\ button.pad = "null"
          /\ Outcome(Ctx(stick), Throw(Ctx(button)), NoEvent)
    /\ UNCHANGED <<ptr, keyboard, time, tickLen, repeats, pad, stickB, downBy>>

\* button.repeatRate = r
SetRepeatRate(r) ==
    /\ Alive(button) /\ button.repeatRate # r
    /\ Outcome(Ctx(stick), Ctx([button EXCEPT !.repeatRate = r]), NoEvent)
    /\ UNCHANGED <<ptr, keyboard, time, tickLen, repeats, pad, stickB, downBy>>

\* keyboard.removeKey(arg) as Button#addKey calls it: the host looks up
\* _keys[arg] and clears the entry it finds.  arg is a keycode or a Key
\* object; a Key object is no index of _keys, so nothing is found.
removeKey(kb, arg) ==
    IF arg.type = "keycode" /\ kb[arg.keyCode] # "none"
    THEN [kb EXCEPT ![arg.keyCode] = "none"]
    ELSE kb

\* button.addKey(keycode); keyboard.addKey creates the Key when missing.
AddKey(keycode) ==
    /\ Alive(button)
    /\ Outcome(Ctx(stick), Ctx(addKey(button, keycode)), NoEvent)
    /\ keyboard' =
         LET kb == IF button.key # 0 /\ button.key # keycode
                   THEN removeKey(keyboard, [type |-> "Key", keyCode |-> button.key])
                   ELSE keyboard
         IN  IF keycode # 0 /\ button.key # keycode /\ kb[keycode] = "none"
             THEN [kb EXCEPT ![keycode] = "up"] ELSE kb
    /\ UNCHANGED <<ptr, time, tickLen, repeats, pad, stickB, downBy>>

\* Phaser.Key.onDown: a key that is up is pressed.
KeyDown(k) ==
    /\ keyboard[k] = "up"
    /\ keyboard' = [keyboard EXCEPT ![k] = "down"]
    /\ Outcome(Ctx(stick),
               IF Exists(button) /\ button.key = k
               THEN keyDown(Ctx(button), time) ELSE Ctx(button),
               NoEvent)
    /\ repeats' = IF Exists(button) /\ button'.isDown /\ ~button.isDown THEN 0 ELSE repeats
    /\ downBy' = PressedBy(button, button', k)
    /\ UNCHANGED <<ptr, time, tickLen, pad, stickB>>

\* Phaser.Key.onUp: a key that is down is released.
KeyUp(k) ==
    /\ keyboard[k] = "down"
    /\ keyboard' = [keyboard EXCEPT ![k] = "up"]
    /\ Outcome(Ctx(stick),
               IF Exists(button) /\ button.key = k
               THEN keyUp(Ctx(button), time) ELSE Ctx(button),
               NoEvent)
    /\ downBy' = PressedBy(button, button', k)
    /\ UNCHANGED <<ptr, time, tickLen, repeats, pad, stickB>>

Next ==
    \/ \E p \in Pointers, pos \in Pos : PointerDown(p, pos)
    \/ \E p \in Pointers, pos \in Pos : PointerMove(p, pos)
    \/ \E p \in Pointers : PointerUp(p)
    \/ Tick
    \/ \E v \in BOOLEAN : SetEnabled(v)
    \/ RemoveStick
    \/ RemoveButton
    \/ DestroyAgain
    \/ \E r \in {0, RepeatRate0} : SetRepeatRate(r)
    \/ \E k \in {0} \cup Keycodes : AddKey(k)
    \/ \E k \in Keycodes : KeyDown(k)
    \/ \E k \in Keycodes : KeyUp(k)

Spec == Init /\ [][Next]_vars

(***************************************************************************)
(* The repeat-fire scenario: a Button with repeatRate = 100 ms is pressed, *)
(* held for 350 ms under evenly spaced update ticks, and released.  The    *)
(* release is seen at the last frame before the 350 ms have passed.        *)
(***************************************************************************)
InitRepeat ==
    /\ stick = Null
    /\ button = [NewButton("CIRC_BUTTON") EXCEPT !.repeatRate = RepeatRate100]
    /\ tickLen \in 1..MaxTickLen
    /\ InitHost

Pressed == button.isDown

Released == button.isUp /\ button.timeUp > 0

\* The number of ticks that fit in the hold, for a press o after its frame.
TicksHeld(o) == (HoldTime + o) \div tickLen

RepeatPress ==
    /\ ~Pressed /\ ~Released
    /\ PointerDown("P1", Pt(0, 0))

RepeatTick ==
    /\ ~Released
    /\ IF Pressed THEN time < button.timeDown + tickLen * TicksHeld(tickLen - 1)
       ELSE time + tickLen <= MaxPressTime
    /\ TickUpTo(time + tickLen)

RepeatRelease ==
    /\ Pressed
    /\ \E o \in 0..(tickLen - 1) : time = button.timeDown + tickLen * TicksHeld(o)
    /\ PointerUp("P1")

NextRepeat == RepeatPress \/ RepeatTick \/ RepeatRelease

SpecRepeat == InitRepeat /\ [][NextRepeat]_vars

(***************************************************************************)
(* The configuration scenario: a Stick or DPad whose scale, distance,      *)
(* position and motionLock the game assigns at any moment, between the     *)
(* events of a pointer.                                                    *)
(***************************************************************************)
Scales == {1, 2}

Distances == {Distance0 \div 5, Distance0, 2 * Distance0}

PosXs == {0, 4}

\* (6,8) lies on the base circle at scale 1, (12,16) at scale 2.
PosConfig == { Pt(0, 0), Pt(2, 0), Pt(0, 5), Pt(6, 8), Pt(12, 16) }

InitConfig ==
    /\ \E kind \in {"Stick", "DPad"} : stick = NewStick(kind)
    /\ button = Null
    /\ tickLen = 1
    /\ InitHost

\* A setter call: the control changes, nothing is dispatched.
Assigned(s) ==
    /\ Outcome(Ctx(s), Ctx(button), NoEvent)
    /\ ptr' = Kept(ptr, s)
    /\ UNCHANGED <<keyboard, time, tickLen, repeats, pad, stickB, downBy>>

\* stick.scale = v
AssignScale(v) == stick._scale # v /\ Assigned(scale(stick, v))

\* stick.distance = v
AssignDistance(v) == stick._distance # v /\ Assigned(SetDistance(stick, v))

\* stick.posX = v
AssignPosX(v) == stick.position.x # v /\ Assigned(SetPosX(stick, v))

\* stick.motionLock = m
AssignMotionLock(m) ==
    /\ stick.kind = "Stick" /\ stick.motionLock # m
    /\ Assigned([stick EXCEPT !.motionLock = m])

NextConfig ==
    \/ \E pos \in PosConfig : PointerDown("P1", pos)
    \/ \E pos \in PosConfig : PointerMove("P1", pos)
    \/ PointerUp("P1")
    \/ \E v \in Scales : AssignScale(v)
    \/ \E v \in Distances : AssignDistance(v)
    \/ \E v \in PosXs : AssignPosX(v)
    \/ \E m \in MotionLocks : AssignMotionLock(m)

SpecConfig == InitConfig /\ [][NextConfig]_vars

(***************************************************************************)
(* The manager scenario: the game adds controls to the manager, removes    *)
(* them, destroys the manager, and the host calls the manager's update.    *)
(* The controls are followed by their identity only.                       *)
(***************************************************************************)
InitPad ==
    /\ stick = Null
    /\ button = Null
    /\ tickLen = 1
    /\ InitHost

Managed(pd) ==
    /\ pad' = pd
    /\ UNCHANGED <<stick, button, ptr, keyboard, time, tickLen, fired,
                   pendingDown, repeats, last, stickB, downBy>>

AddStick == Len(pad.kind) < MaxControls /\ Managed(addStick(pad))

AddDPad == Len(pad.kind) < MaxControls /\ Managed(addDPad(pad))

AddButton == Len(pad.kind) < MaxControls /\ Managed(addButton(pad))

PadRemoveStick(c) ==
    /\ \E i \in DOMAIN pad.sticks : pad.sticks[i] = c
    /\ Managed(removeStick(pad, c))

PadRemoveButton(c) ==
    /\ \E i \in DOMAIN pad.buttons : pad.buttons[i] = c
    /\ Managed(removeButton(pad, c))

PadUpdate == Managed(Pad_update(pad))

PadDestroy == pad.sticks \o pad.buttons # << >> /\ Managed(Pad_destroy(pad))

NextPad ==
    \/ AddStick
    \/ AddDPad
    \/ AddButton
    \/ \E c \in 1..MaxControls : PadRemoveStick(c)
    \/ \E c \in 1..MaxControls : PadRemoveButton(c)
    \/ PadUpdate
    \/ PadDestroy

SpecPad == InitPad /\ [][NextPad]_vars

(***************************************************************************)
(* The two-control scenario: the game has created two Sticks or DPads, A   *)
(* around (0,0) and B around BaseB, not show-on-touch; the host delivers   *)
(* the events of two pointers to the handlers of both, A's first as it     *)
(* registered first.                                                       *)
(***************************************************************************)
BaseB == Pt(2 * Distance0, 0)

\* Inside A's dead zone, on A's handle beyond the dead zone, the same for
\* B, and away from both controls.
PosTwo ==
    { Pt(0, 0), Pt(2, 0), Pt(0, 5),
      Pt(BaseB.x, 0), Pt(BaseB.x + 2, 0), Pt(BaseB.x, 5),
      Pt(Distance0, Distance0) }

\* new Stick / DPad(pad, x, y, distance, ...): the control around (x, y).
NewStickAt(kind, pos) == SetPosY(SetPosX(NewStick(kind), pos.x), pos.y)

InitTwo ==
    /\ \E ka, kb \in {"Stick", "DPad"} :
           /\ stick = NewStickAt(ka, Pt(0, 0))
           /\ stickB = NewStickAt(kb, BaseB)
    /\ button = Null
    /\ pad = NewPad
    /\ tickLen = 1
    /\ ptr = [p \in Pointers |-> Inactive]
    /\ keyboard = [k \in Keycodes |-> "none"]
    /\ time = 1
    /\ fired = <<>>
    /\ pendingDown = FALSE
    /\ repeats = 0
    /\ last = NoEvent
    /\ downBy = 0

\* The host's pointers after an event of the two-control scenario: a
\* position is read again only through the reference A or B holds.
KeptTwo(pt, a, b) ==
    [p \in Pointers |-> IF pt[p].on /\ (p = a.pointer \/ p = b.pointer) THEN pt[p]
                        ELSE [pt[p] EXCEPT !.pos = Pt(0, 0)]]

\* The outcome of one event on both controls.
OutcomeTwo(xa, xb, pt, ev, p) ==
    /\ stick' = xa.s
    /\ stickB' = xb.s
    /\ fired' = xa.out \o xb.out
    /\ ptr' = KeptTwo(pt, xa.s, xb.s)
    /\ last' = [NoEvent EXCEPT !.ev = ev, !.p = p]
    /\ UNCHANGED <<button, keyboard, time, tickLen, pendingDown, repeats, pad, downBy>>

\* game.input.onDown: a pointer goes down at pos.
TwoPointerDown(p, pos) ==
    /\ ~ptr[p].on
    /\ OutcomeTwo(checkDown(Ctx(stick), p, pos, time),
                  checkDown(Ctx(stickB), p, pos, time),
                  [ptr EXCEPT ![p] = [on |-> TRUE, pos |-> pos]], "down", p)

\* game.input.moveCallbacks: an active pointer moves to pos.
TwoPointerMove(p, pos) ==
    /\ ptr[p].on
    /\ (p = stick.pointer \/ p = stickB.pointer) => ptr[p].pos # pos
    /\ LET moved == [ptr EXCEPT ![p].pos = pos]
       IN  OutcomeTwo(moveStick(Ctx(stick), PosOf(moved, stick.pointer), time),
                      moveStick(Ctx(stickB), PosOf(moved, stickB.pointer), time),
                      moved, "move", p)

\* game.input.onUp: an active pointer is released.
TwoPointerUp(p) ==
    /\ ptr[p].on
    /\ OutcomeTwo(checkUp(Ctx(stick), p, time), checkUp(Ctx(stickB), p, time),
                  [ptr EXCEPT ![p] = Inactive], "up", p)

NextTwo ==
    \/ \E p \in Pointers, pos \in PosTwo : TwoPointerDown(p, pos)
    \/ \E p \in Pointers, pos \in PosTwo : TwoPointerMove(p, pos)
    \/ \E p \in Pointers : TwoPointerUp(p)

SpecTwo == InitTwo /\ [][NextTwo]_vars

(***************************************************************************)
(* The derived-value scenario: the getters force, x, y, forceX, forceY,    *)
(* filterX and filterY read line.angle, line.length and distance.  The     *)
(* line is given by these two numbers: the angle in steps of 90/AngleRes   *)
(* degrees within (-180, 180], the length in pixels.  Values are exact     *)
(* fractions num/den with den > 0.                                         *)
(***************************************************************************)
Q(n, d) == [num |-> n, den |-> d]

Mul(p, q) == Q(p.num * q.num, p.den * q.den)

\* Number#toFixed(2) of a value v >= 0, in hundredths.  A value half way
\* between two hundredths is a double on either side of the tie.
ToFixed2(v) ==
    LET n == (100 * v.num) \div v.den
        r == (100 * v.num) % v.den
    IN  IF 2 * r < v.den THEN {n} ELSE IF 2 * r > v.den THEN {n + 1} ELSE {n, n + 1}

\* force without the limit of 1.
force_unclamped(s) == Q(2 * s.line.length, distance(s))

\* Stick#force = Math.min(1, line.length / distance * 2)
force(s) ==
    IF 2 * s.line.length >= distance(s) THEN Q(1, 1)
    ELSE Q(2 * s.line.length, distance(s))

\* x with left and right exchanged.
Stick_x_mirrored(s) ==
    LET a == s.line.angle
    IN  IF a >= 0 THEN Q(a - AngleRes, AngleRes) ELSE Q(0 - AngleRes - a, AngleRes)

\* Stick#x; the quarter turn is AngleRes steps, the half turn 2 * AngleRes.
Stick_x(s) ==
    LET a == s.line.angle
    IN  IF a >= 0
        THEN IF a <= AngleRes THEN Q(AngleRes - a, AngleRes)
             ELSE Q(2 * (2 * AngleRes - a) - 2 * AngleRes, 2 * AngleRes)
        ELSE IF a >= 0 - AngleRes THEN Q(Abs(0 - AngleRes - a), AngleRes)
             ELSE Q(2 * Abs(0 - 2 * AngleRes - a) - 2 * AngleRes, 2 * AngleRes)

\* Stick#y
Stick_y(s) ==
    LET a == s.line.angle
    IN  IF a >= 0 THEN Q(AngleRes - Abs(AngleRes - a), AngleRes)
        ELSE Q(Abs(0 - AngleRes - a) - AngleRes, AngleRes)

\* Stick#forceX
forceX(s) == Mul(force(s), Stick_x(s))

\* Stick#forceY
forceY(s) == Mul(force(s), Stick_y(s))

\* Stick#filterX, in hundredths: the values the returned string can have.
filterX(s) ==
    IF Stick_x(s).num = 0 THEN {50}
    ELSE LET f == forceX(s)
             fx == Q(Abs(f.num), 2 * f.den)
         IN  IF Stick_x(s).num < 0
             THEN ToFixed2(Q(fx.den - 2 * fx.num, 2 * fx.den))
             ELSE ToFixed2(Q(fx.den + 2 * fx.num, 2 * fx.den))

\* Stick#filterY, in hundredths: 1 minus the fixed string.
filterY(s) ==
    IF Stick_y(s).num = 0 THEN {50}
    ELSE LET f == forceY(s)
             fy == Q(Abs(f.num), 2 * f.den)
         IN  IF Stick_y(s).num < 0
             THEN {100 - h : h \in ToFixed2(Q(fy.den - 2 * fy.num, 2 * fy.den))}
             ELSE {100 - h : h \in ToFixed2(Q(fy.den + 2 * fy.num, 2 * fy.den))}

\* The values a game reads from a Stick.
Values(s) ==
    [ force |-> force(s), x |-> Stick_x(s), y |-> Stick_y(s),
      forceX |-> forceX(s), forceY |-> forceY(s),
      filterX |-> filterX(s), filterY |-> filterY(s) ]

InitValues ==
    /\ \E a \in (1 - 2 * AngleRes)..(2 * AngleRes), l \in 0..MaxLineLen, d \in Distances :
           stick = [NewStick("Stick") EXCEPT !.line = [angle |-> a, length |-> l],
                                             !._distance = d]
    /\ button = Null
    /\ tickLen = 1
    /\ InitHost

\* The game reads the derived values of the Stick.
ReadValues ==
    /\ fired = << >>
    /\ fired' = << Note("Stick", "values", Values(stick)) >>
    /\ UNCHANGED <<stick, button, ptr, keyboard, time, tickLen, pendingDown,
                   repeats, last, pad, stickB, downBy>>

NextValues == ReadValues

SpecValues == InitValues /\ [][NextValues]_vars

(***************************************************************************)
(* The press scenario: a Stick created with distance = 100 at (0,0), with  *)
(* a handle sprite of one of two widths, is touched on the axes.           *)
(***************************************************************************)
Distance100 == 100

\* stickSprite.width: a handle narrower than the base, and one that reaches
\* 80 pixels from its centre.
HandleWidths == {60, 160}

PosPress == { Pt(0, 0), Pt(10, 0), Pt(80, 0), Pt(0, 80), Pt(0 - 80, 0) }

\* The line runs along an axis, or has no length.
OnAxis(line) == line.end.x = line.start.x \/ line.end.y = line.start.y

\* line.angle and line.length of a line along an axis, as the getters read
\* them: the angle in steps of 90/AngleRes degrees, the length in pixels.
Polar(s) ==
    LET dx == s.line.end.x - s.line.start.x
        dy == s.line.end.y - s.line.start.y
        a == IF dy = 0 THEN (IF dx >= 0 THEN 0 ELSE 2 * AngleRes)
             ELSE IF dy > 0 THEN AngleRes ELSE 0 - AngleRes
    IN  [s EXCEPT !.line = [angle |-> a, length |-> Abs(dx) + Abs(dy)]]

InitPress ==
    /\ \E w \in HandleWidths :
           stick = [NewStick("Stick") EXCEPT !._distance = Distance100,
                                             !._deadZone20 = 3 * Distance100,
                                             !.baseHitArea.diameter = Distance100,
                                             !.stickHitArea.diameter = w]
    /\ button = Null
    /\ tickLen = 1
    /\ InitHost

NextPress ==
    \/ \E p \in Pointers, pos \in PosPress : PointerDown(p, pos)
    \/ \E p \in Pointers, pos \in PosPress : PointerMove(p, pos)
    \/ \E p \in Pointers : PointerUp(p)

SpecPress == InitPress /\ [][NextPress]_vars

(***************************************************************************)
(* The angle scenario: checkArea applied to a Stick or DPad whose line     *)
(* ends anywhere on a grid around the base.                                *)
(***************************************************************************)
InitAngle ==
    /\ \E kind \in {"Stick", "DPad"}, ex \in (0 - GridMax)..GridMax,
          ey \in (0 - GridMax)..GridMax :
           stick = [NewStick(kind) EXCEPT !.line.end = Pt(ex, ey)]
    /\ button = Null
    /\ tickLen = 1
    /\ InitHost

CheckArea ==
    /\ last.ev = "none"
    /\ Outcome(Ctx(checkArea(stick)), Ctx(button), [NoEvent EXCEPT !.ev = "checkArea"])
    /\ UNCHANGED <<ptr, keyboard, time, tickLen, repeats, pad, stickB, downBy>>

NextAngle == CheckArea

SpecAngle == InitAngle /\ [][NextAngle]_vars

(***************************************************************************)
(* Properties.                                                             *)
(***************************************************************************)
Fired(out, froms, sig) ==
    \E i \in DOMAIN out : out[i].from \in froms /\ out[i].sig = sig

\* The tracking sub-state: a pointer-down was accepted, the control is not
\* down yet.
Tracking(s) == s._tracking /\ s.pointer # "null" /\ ~s.isDown

\* pos is strictly inside the dead zone of the base.
InsideDeadZone(s, pos) ==
    400 * LenSq([start |-> s.position, end |-> pos])
        < (s._deadZone20 * s._scale) * (s._deadZone20 * s._scale)

\* C1: for every Stick, DPad and Button exactly one of isDown and isUp is
\* true in every reachable state.
C1_ExactlyOneOfDownUp ==
    /\ Exists(stick) => (stick.isDown # stick.isUp)
    /\ Exists(button) => (button.isDown # button.isUp)

C1_Witness == Exists(stick) /\ stick.isDown /\ ~stick.isUp /\ stick.timeDown > 0

\* C2: while a Stick is tracking and its pointer is strictly inside the dead
\* zone, force is 0 and no onDown is dispatched.
C2_TrackingForceZero ==
    (/\ Alive(stick) /\ stick.kind = "Stick" /\ Tracking(stick)
     /\ ptr[stick.pointer].on
     /\ InsideDeadZone(stick, ptr[stick.pointer].pos))
    => (forceSq(stick).num = 0 /\ ~Fired(fired, {"Stick"}, "onDown"))

\* C3: once destroyed, a control has no pointer handler registered, and no
\* pointer event changes its state or dispatches a notification.
C3_DestroyDeregisters ==
    [][ /\ (Exists(stick) /\ stick.pad = "null")
           => /\ stick.handlers = {}
              /\ UNCHANGED <<keyboard, time>> => (stick' = stick /\ fired' = <<>>)
        /\ (Exists(button) /\ button.pad = "null")
           => /\ button.handlers = {}
              /\ UNCHANGED <<keyboard, time>> => (button' = button /\ fired' = <<>>)
      ]_vars

\* The control without its timestamps.
Untimed(s) == [s EXCEPT !.timeDown = 0, !.timeUp = 0]

C5_ExactlyThreeRepeats == Released => repeats = 3

\* C6: without show-on-touch, a pointer-down outside the handle hit area
\* leaves the control unchanged and dispatches nothing.
C6_OutsideHitAreaIgnored ==
    [][ \A p \in Pointers :
          (/\ Alive(stick) /\ ~stick._showOnTouch
           /\ ~ptr[p].on /\ ptr'[p].on
           /\ ~CircleContains(stick.stickHitArea, ptr'[p].pos))
          => (stick' = stick /\ fired' = <<>>)
      ]_vars

\* C7: a Stick or DPad dispatches onUp only when an onDown came before it
\* with no other onUp in between.
C7_UpOnlyAfterDown ==
    [][ Fired(fired', {"Stick", "DPad"}, "onUp") => pendingDown ]_vars

\* C8: while enabled is false no event changes a Stick or DPad or makes it
\* dispatch a notification.
C8_DisabledIgnoresEvents ==
    [][ (Alive(stick) /\ ~stick.enabled /\ Alive(stick') /\ ~stick'.enabled)
        => (stick' = stick /\ fired' = <<>>) ]_vars

\* C9: while enabled is false a Button dispatches no onDown and does not
\* become down.
C9_DisabledButtonIgnoresDown ==
    [][ (Alive(button) /\ ~button.enabled /\ ~button'.enabled)
        => /\ button'.isDown => button.isDown
           /\ ~Fired(fired', {"Button"}, "onDown") ]_vars

\* C10: the pointer-up of a pointer that the control has not bound changes
\* nothing, dispatches nothing and raises no error.
C10_ForeignPointerUpIsNoOp ==
    [][ \A p \in Pointers :
          (/\ ptr[p].on /\ ~ptr'[p].on
           /\ p # BoundTo(stick) /\ p # BoundTo(button))
          => (stick' = stick /\ button' = button /\ fired' = <<>>)
      ]_vars

C10_Witness ==
    /\ last.ev = "up" /\ ~last.wasBound
    /\ Exists(stick) /\ stick.isDown /\ stick.pointer # "null"

\* The handle's x is the x of a pointer at px, clamped to the base radius
\* (to the whole pixel).
ClampedX(s, px) ==
    LET h == s.stickHitArea.x - s.position.x
    IN  IF 2 * Abs(px - s.position.x) < s.baseHitArea.diameter
        THEN s.stickHitArea.x = px
        ELSE /\ Sgn(h) = Sgn(px - s.position.x)
             /\ 2 * Abs(h) <= s.baseHitArea.diameter
             /\ 2 * (Abs(h) + 1) > s.baseHitArea.diameter

\* C11: on a Stick with motionLock HORIZONTAL the handle's y stays the base
\* centre's y in every step, and every processed pointer move puts the
\* handle's x on the pointer's x, clamped to the base radius.
C11_HorizontalLock ==
    [][ (Alive(stick') /\ stick'.kind = "Stick" /\ stick'.motionLock = "HORIZONTAL")
        => /\ stick'.stickHitArea.y = stick'.position.y
           /\ Fired(fired', {"Stick"}, "onMove")
              => ClampedX(stick', ptr'[stick'.pointer].pos.x) ]_vars

C11_Witness ==
    /\ Alive(stick) /\ stick.kind = "Stick" /\ stick.motionLock = "HORIZONTAL"
    /\ stick.isDown /\ Fired(fired, {"Stick"}, "onMove")
    /\ ptr[stick.pointer].pos.y # stick.position.y
    /\ 2 * Abs(ptr[stick.pointer].pos.x - stick.position.x) >= stick.baseHitArea.diameter

\* The vector of a control's line.
LineVector(s) == Pt(s.line.end.x - s.line.start.x, s.line.end.y - s.line.start.y)

Cross(p, q) == p.x * q.y - p.y * q.x

\* The directions of angleFull = 45, 135, 225 and 315 degrees.
Deg45 == Pt(1, 1)
Deg135 == Pt(0 - 1, 1)
Deg225 == Pt(0 - 1, 0 - 1)
Deg315 == Pt(1, 0 - 1)

\* The angle of a lies in the half-open sector [lo, hi), hi a quarter turn
\* after lo.
InSector(a, lo, hi) == Cross(lo, a) >= 0 /\ Cross(a, hi) > 0

\* C12: the quadrant checkArea computes depends on angleFull alone, with
\* half-open intervals: [45,135) is 1, [135,225) is 2, [225,315) is 3 and
\* the rest of [0,360) is 0; 0, 90, 180 and 270 degrees give 0, 1, 2, 3 and
\* each of 45, 135, 225, 315 belongs to the higher quadrant (315 to 0).
C12_QuadrantOfAngle ==
    last.ev = "checkArea" =>
      LET a == LineVector(stick)
      IN  /\ stick.quadrant = IF InSector(a, Deg45, Deg135) THEN 1
                              ELSE IF InSector(a, Deg135, Deg225) THEN 2
                              ELSE IF InSector(a, Deg225, Deg315) THEN 3
                              ELSE 0
          /\ (a.y = 0 /\ a.x >= 0) => stick.quadrant = 0
          /\ (a.x = 0 /\ a.y > 0) => stick.quadrant = 1
          /\ (a.y = 0 /\ a.x < 0) => stick.quadrant = 2
          /\ (a.x = 0 /\ a.y < 0) => stick.quadrant = 3
          /\ (a.x > 0 /\ a.y = a.x) => stick.quadrant = 1
          /\ (a.x < 0 /\ a.y = 0 - a.x) => stick.quadrant = 2
          /\ (a.x < 0 /\ a.y = a.x) => stick.quadrant = 3
          /\ (a.x > 0 /\ a.y = 0 - a.x) => stick.quadrant = 0

C12_Witness ==
    /\ last.ev = "checkArea"
    /\ LineVector(stick).x < 0 /\ LineVector(stick).y = LineVector(stick).x
    /\ stick.quadrant = 3

\* The bound pointer lies exactly on the circle of the base hit area.
PointerOnRim(s, pt) ==
    4 * LenSq([start |-> s.position, end |-> pt[s.pointer].pos])
        = s.baseHitArea.diameter * s.baseHitArea.diameter

\* C13: when a Stick that is down with no motion lock processes a move of
\* its pointer to a point exactly on the base circle, force is 1 and the
\* handle is on that point, centre + radius (cos, sin).
C13_FullForceAtRim ==
    [][ (/\ Alive(stick') /\ stick'.kind = "Stick" /\ stick'.motionLock = "NONE"
         /\ stick'.isDown /\ Fired(fired', {"Stick"}, "onMove")
         /\ PointerOnRim(stick', ptr'))
        => /\ forceSq(stick') = [num |-> 1, den |-> 1]
           /\ stick'.stickHitArea.x = ptr'[stick'.pointer].pos.x
           /\ stick'.stickHitArea.y = ptr'[stick'.pointer].pos.y ]_vars

\* C14: the distance between the handle and the base centre never exceeds
\* the value read from distance, whatever pointer events and scale,
\* distance, position and motionLock assignments have happened.
C14_HandleWithinDistance ==
    Alive(stick) =>
      (stick.stickHitArea.x - stick.position.x) * (stick.stickHitArea.x - stick.position.x)
    + (stick.stickHitArea.y - stick.position.y) * (stick.stickHitArea.y - stick.position.y)
      <= distance(stick) * distance(stick)

\* C15: after any sequence of scale assignments the diameter of the base
\* hit area is the value read from distance, the construction distance
\* times the current scale.
C15_ScaleRescalesBase ==
    (Alive(stick) /\ stick._distance = Distance0)
    => /\ stick.baseHitArea.diameter = distance(stick)
       /\ stick.baseHitArea.diameter = Distance0 * stick._scale

\* A step in which a pointer moved and nothing else happened.
MoveStep ==
    /\ Alive(stick) /\ Alive(stick')
    /\ \A p \in Pointers : ptr'[p].on = ptr[p].on
    /\ stick'.enabled = stick.enabled
    /\ UNCHANGED <<time, keyboard>>

\* C16: without show-on-touch, a pointer-down inside the handle hit area and
\* within the dead zone starts tracking without isDown or onDown; the first
\* pointer move after it whose line is longer than deadZone sets isDown,
\* ends tracking and dispatches onDown once, before the onMove of that
\* move; moves while down dispatch no onDown.
C16_TrackingThenDown ==
    [][ /\ \A p \in Pointers :
             (/\ Alive(stick) /\ ~stick._showOnTouch /\ stick.enabled /\ stick.isUp
              /\ ~ptr[p].on /\ ptr'[p].on
              /\ CircleContains(stick.stickHitArea, ptr'[p].pos)
              /\ ~BeyondDeadZone(stick, ptr'[p].pos))
             => /\ stick'._tracking /\ stick'.pointer = p
                /\ ~stick'.isDown /\ stick'.isUp
                /\ ~Fired(fired', {"Stick", "DPad"}, "onDown")
        /\ (MoveStep /\ Tracking(stick))
             => IF LengthLeqDeadZone(stick')
                THEN Tracking(stick') /\ fired' = <<>>
                ELSE /\ stick'.isDown /\ ~stick'.isUp /\ ~stick'._tracking
                     /\ fired' = << Note(stick.kind, "onDown", stick.pointer),
                                    Note(stick.kind, "onMove", "values") >>
        /\ (MoveStep /\ stick.isDown)
             => ~Fired(fired', {"Stick", "DPad"}, "onDown")
      ]_vars

C16_Witness ==
    /\ Alive(stick) /\ stick.isDown /\ ~stick._showOnTouch
    /\ last.ev = "none"
    /\ Len(fired) = 2 /\ fired[1].sig = "onDown" /\ fired[2].sig = "onMove"

\* C17: on an enabled Stick or DPad that is up in show-on-touch mode, a
\* pointer-down anywhere moves position, base hit area, handle, line start
\* and line end to the pointer, makes the control visible and sets isDown
\* with one onDown; the pointer-up of that pointer makes it invisible.
C17_ShowOnTouchWarp ==
    [][ \A p \in Pointers :
          /\ (/\ Alive(stick) /\ stick._showOnTouch /\ stick.enabled /\ stick.isUp
              /\ ~ptr[p].on /\ ptr'[p].on)
             => LET pos == ptr'[p].pos
                IN  /\ stick'.pointer = p
                    /\ stick'.position = pos
                    /\ stick'.baseHitArea.x = pos.x /\ stick'.baseHitArea.y = pos.y
                    /\ stick'.stickHitArea.x = pos.x /\ stick'.stickHitArea.y = pos.y
                    /\ stick'.line = [start |-> pos, end |-> pos]
                    /\ stick'.visible
                    /\ stick'.isDown /\ ~stick'.isUp
                    /\ fired' = << Note(stick.kind, "onDown", p) >>
          /\ (/\ Alive(stick) /\ stick._showOnTouch /\ stick.isDown
              /\ ptr[p].on /\ ~ptr'[p].on /\ p = stick.pointer)
             => ~stick'.visible
      ]_vars

C17_Witness ==
    /\ Alive(stick) /\ stick._showOnTouch /\ ~stick.visible /\ stick.isUp
    /\ last.ev = "up" /\ last.wasBound
    /\ stick.position # Pt(0, 0)

\* C18: whenever a Stick or DPad with a positive deadZone goes from up to
\* down, in any mode, its line is longer than deadZone.
C18_DownOnlyBeyondDeadZone ==
    [][ (/\ Alive(stick) /\ Alive(stick')
         /\ stick.isUp /\ stick'.isDown
         /\ stick'._deadZone20 * stick'._scale > 0)
        => ~LengthLeqDeadZone(stick') ]_vars

\* The onUpdate notifications among those of a step.
Updates(out) == {i \in DOMAIN out : out[i].sig = "onUpdate"}

C20_DPadDirection ==
    [][ (Exists(stick') /\ stick'.kind = "DPad")
        => /\ (stick'.isDown /\ Fired(fired', {"DPad"}, "onMove"))
              => /\ stick'.quadrant = 0 => stick'.direction = "RIGHT"
                 /\ stick'.quadrant = 1 => stick'.direction = "DOWN"
                 /\ stick'.quadrant = 2 => stick'.direction = "LEFT"
                 /\ stick'.quadrant = 3 => stick'.direction = "UP"
                 /\ stick'.quadrant \in 0..3
           /\ DPad_x(stick') \in {0 - 1, 0, 1} /\ DPad_y(stick') \in {0 - 1, 0, 1}
           /\ DPad_x(stick') = 0 - 1 <=> stick'.direction = "LEFT"
           /\ DPad_x(stick') = 1 <=> stick'.direction = "RIGHT"
           /\ DPad_y(stick') = 0 - 1 <=> stick'.direction = "UP"
           /\ DPad_y(stick') = 1 <=> stick'.direction = "DOWN"
           /\ DPad_x(stick') = 0 \/ DPad_y(stick') = 0 ]_vars

C20_Witness ==
    /\ Alive(stick) /\ stick.kind = "DPad" /\ stick.isDown
    /\ last.ev = "none" /\ Fired(fired, {"DPad"}, "onMove")
    /\ stick.quadrant = 1 /\ DPad_y(stick) = 1 /\ DPad_x(stick) = 0

\* The handle is where free movement puts it for a pointer at pp: on the
\* pointer while the line is shorter than the base radius, else on the
\* circumference of the base along the line's angle.
FreeHandle(s, pp) ==
    LET target == IF LengthLtRadius(s) THEN pp
                  ELSE CircumferencePoint(s.baseHitArea, s.line)
    IN  s.stickHitArea.x = target.x /\ s.stickHitArea.y = target.y

\* C21: after a pointer move that a DPad processes while it is down, the
\* handle is on the pointer when the line is shorter than the base radius
\* and on the circumference of the base along the angle otherwise.
C21_DPadHandleFollows ==
    (Alive(stick) /\ stick.kind = "DPad" /\ stick.isDown
       /\ last.ev = "none" /\ Fired(fired, {"DPad"}, "onMove"))
    => FreeHandle(stick, ptr[stick.pointer].pos)

\* C22: a pointer-down binds the pointer, sets isDown, records timeDown and
\* dispatches exactly one onDown with the pointer if and only if the Button
\* is enabled, is up and the pointer is inside hitArea; any other
\* pointer-down leaves the Button unchanged and dispatches nothing.
C22_ButtonDownIff ==
    [][ \A p \in Pointers, pos \in Pos :
          (Exists(button) /\ PointerDown(p, pos))
          => IF Alive(button) /\ button.enabled /\ button.isUp
                /\ HitAreaContains(button, pos)
             THEN /\ button'.pointer = p
                  /\ button'.isDown /\ ~button'.isUp
                  /\ button'.timeDown = time
                  /\ fired' = << Note("Button", "onDown", p) >>
             ELSE /\ button' = button
                  /\ fired' = << >> ]_vars

C22_Witness ==
    /\ Alive(button) /\ last.ev = "down"
    /\ button.isDown /\ button.pointer = last.p
    /\ button.timeDown = time
    /\ fired = << Note("Button", "onDown", last.p) >>

\* C23: duration, read in any state of a Button, returns the time elapsed
\* since timeDown while the Button is down and timeUp - timeDown while it
\* is up, without an error.
C23_DurationReadable ==
    Alive(button)
    => duration(button) = IF button.isDown THEN [value |-> time - button.timeDown]
                          ELSE [value |-> button.timeUp - button.timeDown]

\* C24: after any sequence of addKey calls on a Button the keyboard holds at
\* most one Key of the Button, the one that is bound: a key bound before has
\* been removed from the keyboard.
C24_OnlyBoundKeyRemains ==
    Alive(button) => \A k \in Keycodes : keyboard[k] # "none" => button.key = k

\* The Button is down by a press of its bound key: the key is held and no
\* pointer is bound.
HeldByKey(b) ==
    /\ b.isDown /\ b.pointer = "null"
    /\ b.key # 0 /\ keyboard[b.key] = "down"

\* C25: a down notification dispatched on an update tick while the Button
\* is held by its bound key carries the key, neither null nor a pointer, as
\* its second argument.
C25_KeyPressCarriesKey ==
    [][ (time' # time /\ Alive(button) /\ HeldByKey(button))
        => \A i \in DOMAIN fired' :
             fired'[i].from = "Button" => fired'[i].arg \notin ({"null"} \cup Pointers) ]_vars

\* The number of onDown notifications of the Button in out.
DownsIn(out) ==
    Cardinality({i \in DOMAIN out : out[i].from = "Button" /\ out[i].sig = "onDown"})

\* C26: with repeatRate = 0 the step that takes a Button from up to down
\* dispatches exactly one onDown, and no step taken while the Button is
\* down, update ticks included, dispatches another.
C26_OnceAtRateZero ==
    [][ (Exists(button) /\ button.repeatRate = 0)
        => /\ button.isDown => DownsIn(fired') = 0
           /\ (Alive(button) /\ ~button.isDown /\ button'.isDown)
              => DownsIn(fired') = 1 ]_vars

C26_Witness ==
    /\ Alive(button) /\ button.repeatRate = 0
    /\ button.isDown /\ time > button.timeDown
    /\ pendingDown /\ fired = << >>

\* The number of controls registered with the manager.
Registered(pd) == Len(pd.sticks) + Len(pd.buttons)

\* C27: an addStick, addDPad or addButton call requests a pointer slot from
\* the host if and only if more than two controls are registered after the
\* call.
C27_SlotIffMoreThanTwo ==
    [][ Len(pad'.kind) > Len(pad.kind)
        => ((pad'.addPointer > pad.addPointer) <=> (Registered(pad') > 2)) ]_vars

\* Control c is in the registry of the manager.
Member(pd, c) ==
    \/ \E i \in DOMAIN pd.sticks : pd.sticks[i] = c
    \/ \E i \in DOMAIN pd.buttons : pd.buttons[i] = c

\* The number of update calls forwarded to control c.
CallsTo(pd, c) == Cardinality({i \in DOMAIN pd.calls : pd.calls[i] = c})

\* C28: a control is in the registry exactly from its creation until its
\* removal by removeStick, removeButton or the manager's destroy, and a
\* manager update forwards one update call to every member and none to any
\* other control, the calls to sticks and dpads before those to buttons.
C28_RegistryAndUpdate ==
    [][ /\ \A c \in 1..Len(pad'.kind) : Member(pad', c) <=> c \notin pad'.destroyed
        /\ \A c \in 1..MaxControls : Member(pad', c) => c <= Len(pad'.kind)
        /\ PadUpdate
           => /\ \A c \in 1..Len(pad.kind) :
                   CallsTo(pad', c) = IF Member(pad, c) THEN 1 ELSE 0
              /\ \A i, j \in DOMAIN pad'.calls :
                   (i < j /\ pad.kind[pad'.calls[i]] = "Button")
                   => pad.kind[pad'.calls[j]] = "Button" ]_vars

C28_Witness ==
    /\ pad.destroyed # {}
    /\ \E i, j \in DOMAIN pad.calls :
         pad.kind[pad.calls[i]] = "DPad" /\ pad.kind[pad.calls[j]] = "Button"

\* C29: a destroy() call on a Stick, DPad or Button that is destroyed
\* already raises no error and changes no state.
C29_SecondDestroyNoOp ==
    [][ DestroyAgain
        => /\ stick' = stick /\ button' = button
           /\ ~Fired(fired', {"Stick", "DPad", "Button"}, "TypeError") ]_vars

Engaged(s) == s.pointer # "null" /\ (s._tracking \/ s.isDown)

\* pos is outside the hit areas of the control, handle and base.
OutsideHitArea(s, pos) ==
    ~CircleContains(s.stickHitArea, pos) /\ ~CircleContains(s.baseHitArea, pos)

\* C31: once A has engaged a pointer, no down or move of the other pointer
\* outside A's hit area and no up of the other pointer changes A (its bound
\* pointer, isDown, tracking flag, line), and A and B never have the same
\* pointer engaged.
C31_IndependentPointers ==
    [][ /\ Engaged(stick)
           => /\ \A q \in Pointers, pos \in PosTwo :
                   (/\ q # stick.pointer /\ OutsideHitArea(stick, pos)
                    /\ (TwoPointerDown(q, pos) \/ TwoPointerMove(q, pos)))
                   => stick' = stick
              /\ \A q \in Pointers : (q # stick.pointer /\ TwoPointerUp(q)) => stick' = stick
        /\ (Engaged(stick') /\ Engaged(stickB')) => stick'.pointer # stickB'.pointer ]_vars

\* lo <= q <= hi for a fraction q with a positive denominator.
Within(q, lo, hi) == lo * q.den <= q.num /\ q.num <= hi * q.den

\* C32: for every line angle in (-180, 180], every length and every
\* distance > 0, the values read from a Stick are in range: force in [0,1],
\* x, y, forceX and forceY in [-1,1], filterX and filterY in [0,1].
C32_ValuesInRange ==
    \A i \in DOMAIN fired :
      fired[i].sig = "values"
      => LET v == fired[i].arg
         IN  /\ Within(v.force, 0, 1)
             /\ Within(v.x, 0 - 1, 1) /\ Within(v.y, 0 - 1, 1)
             /\ Within(v.forceX, 0 - 1, 1) /\ Within(v.forceY, 0 - 1, 1)
             /\ \A h \in v.filterX \cup v.filterY : 0 <= h /\ h <= 100

C32_Witness ==
    /\ fired # << >> /\ fired[1].sig = "values"
    /\ 2 * stick.line.length > distance(stick)
    /\ fired[1].arg.x.num < 0 /\ fired[1].arg.y.num < 0
    /\ \A h \in fired[1].arg.filterX : h < 50
    /\ \A h \in fired[1].arg.filterY : h > 50

\* Two fractions are the same number.
SameValue(p, q) == p.num * q.den = q.num * p.den

\* A pointer has just gone down at base + (80, 0) on the Stick at rest.
PressedAt80(s) ==
    /\ Alive(s) /\ s.kind = "Stick" /\ s._distance = Distance100
    /\ last.ev = "down" /\ last.rest
    /\ s.pointer = last.p /\ ptr[last.p].pos = Pt(80, 0)

\* The Stick is down under full force, pointing right.
DownPointingRight(s) ==
    /\ s.isDown
    /\ OnAxis(s.line)
    /\ SameValue(force(Polar(s)), Q(1, 1))
    /\ SameValue(Stick_x(Polar(s)), Q(1, 1))
    /\ SameValue(Stick_y(Polar(s)), Q(0, 1))

\* C33: for a Stick created with distance = 100 a pointer-down at
\* base + (80, 0) results in isDown = true, force = 1, x = 1 and y = 0.
C33_PressAt80 == PressedAt80(stick) => DownPointingRight(stick)

\* C33, amended: the same when the handle's hit area reaches the pointer
\* (a handle at least 160 wide); under a narrower handle the pointer-down
\* is outside the hit area and the Stick stays up.
C33_PressAt80InHandle ==
    PressedAt80(stick)
    => IF stick.stickHitArea.diameter >= 160 THEN DownPointingRight(stick)
       ELSE stick.isUp /\ ~stick.isDown

C33_Witness ==
    /\ PressedAt80(stick) /\ stick.stickHitArea.diameter >= 160
    /\ DownPointingRight(stick)
    /\ Fired(fired, {"Stick"}, "onDown")

\* C34: in every reachable state of a Stick or DPad the tracking flag being
\* true implies that a pointer is bound; a pointer-up of the bound pointer
\* received while tracking ends the tracking sub-state.
C34_TrackingHasPointer ==
    Alive(stick) => (stick._tracking => stick.pointer # "null")

\* C35: in every reachable state of a Stick or DPad that has not been
\* destroyed, isDown implies that a pointer is bound and that the tracking
\* flag is false.
C35_DownHasPointerNotTracking ==
    (Alive(stick) /\ stick.isDown) => (stick.pointer # "null" /\ ~stick._tracking)

C35_Witness ==
    /\ Alive(stick) /\ stick.isDown /\ stick.pointer # "null" /\ ~stick._tracking
    /\ last.ev = "none" /\ Fired(fired, {"Stick", "DPad"}, "onDown")

\* C36: a Stick at rest (up, handle on the base centre, line of zero
\* length) reads x = 0, y = 0, forceX = 0 and forceY = 0.
C36_NeutralAtRest ==
    (Alive(stick) /\ stick.kind = "Stick" /\ AtRest(stick))
    => /\ Stick_x(Polar(stick)).num = 0
       /\ Stick_y(Polar(stick)).num = 0
       /\ forceX(Polar(stick)).num = 0
       /\ forceY(Polar(stick)).num = 0

\* C37: the octant computed by checkArea is one of the eight values 0, 45,
\* 90, 135, 180, 225, 270 and 315.
C37_OctantBelow360 ==
    (Exists(stick) /\ last.ev = "checkArea")
    => stick.octant \in {0, 45, 90, 135, 180, 225, 270, 315}

\* C38: for a Button with a bound key the press and release notifications
\* alternate, repeat-fire dispatches aside: an onUp is dispatched only after
\* an onDown with no onUp since, and an onDown of a pointer or key event
\* only when no onDown is pending.
C38_PressReleaseAlternate ==
    [][ (Exists(button) /\ button.key # 0)
        => /\ Fired(fired', {"Button"}, "onUp") => pendingDown
           /\ (time' = time /\ Fired(fired', {"Button"}, "onDown")) => ~pendingDown ]_vars


\* C39: when a Button that was not destroyed is down because key k was
\* pressed, the release of key k returns the Button to up and dispatches one
\* onUp, whatever addKey calls, pointer events and update ticks came in
\* between.
C39_KeyReleaseReturnsUp ==
    [][ \A k \in Keycodes :
          (/\ Alive(button) /\ button.isDown /\ downBy = k
           /\ keyboard[k] = "down" /\ keyboard'[k] = "up")
          => /\ button'.isUp /\ ~button'.isDown
             /\ Len(SelectSeq(fired', LAMBDA n : n.from = "Button" /\ n.sig = "onUp")) = 1 ]_vars

====
